---- MODULE Spec2Model ----
(***************************************************************************)
(* Model of src/app.py: the virtual-balance compounding webhook trader.    *)
(*                                                                         *)
(* Money is a Decimal in the program; here it is an integer number of      *)
(* mills (1/1000 of a dollar), so that amounts with more than two decimal  *)
(* digits exist and quantize(Decimal('0.01'), ROUND_DOWN) does something.  *)
(* Prices are integers in tenths (PriceScale ticks per unit of price).     *)
(* Every network call and every file access of a request is one step of    *)
(* its worker thread; Spec lets the steps of several requests interleave   *)
(* (Flask serves each request in its own thread), SeqSpec serves one       *)
(* request at a time, JournalSpec does so on a journal that is nearly      *)
(* full, SizerSpec applies calculate_position_size to drawn inputs.        *)
(***************************************************************************)
EXTENDS Integers, Sequences, FiniteSets, TLC

VARIABLES
    balFile,   \* balance.json: [kind, cents]
    trades,    \* trades.json: the journal, oldest first
    pos,       \* broker: net units of the open EUR_USD position (0: none)
    orders,    \* broker: number of market orders accepted so far
    req,       \* per worker thread: the request it serves (locals of webhook/execute_trade)
    obs,       \* per worker thread: what the request in service has done so far (history)
    keyAge,    \* per alert id: ticks since a request carrying it last entered execute_trade (-1: none within the TTL)
    plLog,     \* closes the broker performed and the sum of the P/L it reported: [n, sum] (history)
    started,   \* number of requests received so far
    resets,    \* number of POST /reset served so far
    sz         \* SizerSpec: inputs and results of calculate_position_size

vars == <<balFile, trades, pos, orders, req, obs, keyAge, plLog, started, resets, sz>>

----------------------------------------------------------------------------
(* Units and program constants *)

\* mills per dollar: the resolution at which Decimal amounts are represented
Dollar == 1000
\* Decimal('0.01'), the quantum of save_balance, in mills
Quantum == 10
\* ticks per unit of price
PriceScale == 10

\* OANDA_BASE_BALANCE, set to 1000 (the baseline of the spec's scenario), in mills
BASE_BAL == 1000000
\* Decimal("50")
LEVERAGE == 50
\* Decimal("100"), the balance at or below which no trade is made, in mills
MIN_BALANCE == 100000
\* the smallest order, in units
MIN_UNITS == 100
\* trades[-100:]
LOG_KEEP == 100

\* spec 4.2: the idempotency window, in clock ticks
TTL == 2

----------------------------------------------------------------------------
(* Bounds *)

MaxRequests == 2

\* the threads that serve requests
Workers == {1, 2}
Sides == {"BUY", "SELL"}
\* realized P/L a close may report, in mills: a ruinous loss (-1200.005),
\* a heavy loss (-889.991) and a gain (10.000)
PLs == {-1200005, -889991, 10000}
\* mid prices, in ticks: 1.1 and 60.0
Prices == {11, 600}
\* positions the broker may hold when the service starts
InitPositions == {0, 500}
\* alert ids a payload may carry
Keys == {"k1"}
NoKey == "none"

----------------------------------------------------------------------------
(* Decimal arithmetic *)

Abs(x) == IF x < 0 THEN -x ELSE x

\* integer part of a / b for b > 0, rounding toward zero (ROUND_DOWN)
TruncDiv(a, b) == IF a >= 0 THEN a \div b ELSE -((-a) \div b)

\* a faulty variant of ToCents: ROUND_HALF_UP instead of ROUND_DOWN
ToCentsHalfUp(bal) ==
    IF bal >= 0 THEN (bal + (Quantum \div 2)) \div Quantum
    ELSE -((-bal + (Quantum \div 2)) \div Quantum)

\* str(bal.quantize(Decimal('0.01'), ROUND_DOWN)): the decimal string with
\* two places, as its number of cents
ToCents(bal) == TruncDiv(bal, Quantum)

\* Decimal(data["balance"]) of a two-place decimal string
FromCents(c) == c * Quantum

----------------------------------------------------------------------------
(* The webhook payload and its validation (webhook, lines 271-279) *)

\* a JSON value at payload["strategy"]["order_action"], or its absence
Absent == [t |-> "absent", v |-> ""]
JStr(s) == [t |-> "str", v |-> s]
JNum == [t |-> "num", v |-> "5"]
JNull == [t |-> "null", v |-> ""]

\* the request body: unparsable, a JSON array, or a JSON object whose
\* "strategy" member is absent, a string or an object
Body(body, strategy, action, id) ==
    [body |-> body, strategy |-> strategy, action |-> action, id |-> id]

Payloads ==
    { Body("malformed", "absent", Absent, NoKey),
      Body("array", "absent", Absent, NoKey),
      Body("object", "absent", Absent, NoKey),
      Body("object", "string", Absent, NoKey),
      Body("object", "object", Absent, NoKey),
      Body("object", "object", JNum, NoKey),
      Body("object", "object", JNull, NoKey),
      Body("object", "object", JStr("hold"), NoKey),
      Body("object", "object", JStr("buy"), NoKey),
      Body("object", "object", JStr("SELL"), NoKey),
      Body("object", "object", JStr("BUY"), "k1") }

\* str.upper() on the action strings that occur
Upper(s) ==
    CASE s = "buy" -> "BUY"
      [] s = "sell" -> "SELL"
      [] s = "hold" -> "HOLD"
      [] OTHER -> s

\* payload["strategy"]["order_action"].upper(): what the lookup of the
\* action and the call of upper() raise
ActionError(action) ==
    IF action.t = "absent" THEN "KeyError"
    ELSE IF action.t # "str" THEN "AttributeError"
    ELSE "none"

\* lines 271-277: the exception raised by the validation block ("none":
\* the side is valid) and the side
Validate(p) ==
    IF p.body = "malformed" THEN [exc |-> "KeyError", side |-> "-"]
    ELSE IF p.body = "array" THEN [exc |-> "TypeError", side |-> "-"]
    ELSE IF p.strategy = "absent" THEN [exc |-> "KeyError", side |-> "-"]
    ELSE IF p.strategy = "string" THEN [exc |-> "TypeError", side |-> "-"]
    ELSE IF ActionError(p.action) # "none"
         THEN [exc |-> ActionError(p.action), side |-> "-"]
    ELSE IF Upper(p.action.v) \notin Sides
         THEN [exc |-> "ValueError", side |-> "-"]
    ELSE [exc |-> "none", side |-> Upper(p.action.v)]

\* lines 278-279: the except clause of the validation block
InnerCaught(exc) == exc \in {"KeyError", "TypeError"}

\* lines 286-291: the except clauses of webhook. The JSONDecodeError that
\* Response.json() raises is a ValueError.
OuterStatus(exc) == IF exc \in {"ValueError", "JSONDecodeError"} THEN 400 ELSE 500

\* the HTTP status of a request whose validation block raised exc
ValidationStatus(exc) == IF InnerCaught(exc) THEN 400 ELSE OuterStatus(exc)

----------------------------------------------------------------------------
(* The ledger file (load_balance, save_balance) *)

\* save_balance(bal): the record written to balance.json
save_balance(bal) == [kind |-> "valid", cents |-> ToCents(bal)]

\* load_balance() on ledger file f: the exception that escapes ("none":
\* it returns), the balance returned and the file it leaves. Only
\* JSONDecodeError and KeyError are caught (line 43): Decimal() of a string
\* that is not a number raises InvalidOperation, and data["balance"] on JSON
\* that is not an object raises TypeError.
load_balance(f) ==
    CASE f.kind = "missing" ->
            [exc |-> "none", bal |-> BASE_BAL, file |-> save_balance(BASE_BAL)]
      [] f.kind = "valid" ->
            [exc |-> "none", bal |-> FromCents(f.cents), file |-> f]
      [] f.kind \in {"badjson", "nokey"} ->
            [exc |-> "none", bal |-> BASE_BAL, file |-> save_balance(BASE_BAL)]
      [] f.kind = "baddecimal" ->
            [exc |-> "InvalidOperation", bal |-> 0, file |-> f]
      [] OTHER ->
            [exc |-> "TypeError", bal |-> 0, file |-> f]

----------------------------------------------------------------------------
(* The sizer (calculate_position_size) *)

\* a faulty variant of calculate_position_size: rounds half up instead of down
SizeRoundHalfUp(balance, price, side) ==
    LET num == balance * LEVERAGE * PriceScale
        den == price * Dollar
        u == IF num >= 0 THEN (num + (den \div 2)) \div den
             ELSE -(((-num) + (den \div 2)) \div den)
    IN IF side = "SELL" THEN -u ELSE u

\* a faulty variant of calculate_position_size: the leverage is not applied
SizeNoLeverage(balance, price, side) ==
    LET units == TruncDiv(balance * PriceScale, price * Dollar)
    IN IF side = "SELL" THEN -units ELSE units

\* a faulty variant of calculate_position_size: the direction is not applied
SizeUnsigned(balance, price, side) ==
    TruncDiv(balance * LEVERAGE * PriceScale, price * Dollar)

\* balance in mills, price in ticks: balance * LEVERAGE / price in units,
\* quantized to an integer with ROUND_DOWN, negated for SELL
calculate_position_size(balance, price, side) ==
    LET notional_value == balance * LEVERAGE
        units == TruncDiv(notional_value * PriceScale, price * Dollar)
    IN IF side = "SELL" THEN -units ELSE units

----------------------------------------------------------------------------
(* Request state *)

\* the locals of webhook and execute_trade, and where the thread stands
IdleReq ==
    [pc |-> "idle", side |-> "-", key |-> NoKey, exc |-> "none", status |-> 0,
     cur |-> 0, pl |-> 0, newbal |-> 0, price |-> 0, units |-> 0]

\* what the request in service has done so far: whether its alert id was
\* new, the ledger file, position and journal length it found, the answer
\* to its position fetch and to its close call, its reads and writes of the
\* ledger and the balance it loaded, its closes,
\* the balance its commit computed and the cents it wrote, its order attempts and accepted orders, the
\* outcome of its journal write, the balance it passed to the sizer
IdleObs ==
    [fresh |-> TRUE, file0 |-> [kind |-> "missing", cents |-> 0], pos0 |-> 0,
     trades0 |-> 0, ordinal |-> 0, fetched |-> "-", closed |-> "-", loads |-> 0, loaded |-> 0, saves |-> 0, closes |-> 0,
     commits |-> 0, folded |-> 0, committed |-> 0, tried |-> 0, placed |-> 0, journal |-> "-",
     sized |-> FALSE, sizedOn |-> 0]

\* a faulty variant of LastN: the first n elements, s[:n]
FirstN(s, n) == IF Len(s) <= n THEN s ELSE SubSeq(s, 1, n)

\* the last n elements of sequence s: s[-n:]
LastN(s, n) == IF Len(s) <= n THEN s ELSE SubSeq(s, Len(s) - n + 1, Len(s))

\* lines 63-66 and 247-256: the trade record appended for the request of
\* locals r: its timestamp (the ordinal of the request) and the members that
\* identify the trade
TradeData(r, n) == [timestamp |-> n, side |-> r.side, units |-> r.units]

\* the request of thread t ends with exception exc escaping execute_trade:
\* the locals are gone, the response carries the error (the message of a
\* ValueError quotes the balance or the units it refuses)
Raise(t, exc) ==
    [req EXCEPT ![t] = [IdleReq EXCEPT !.pc = "done", !.side = req[t].side,
                            !.key = req[t].key, !.exc = exc,
                            !.status = OuterStatus(exc)]]

Budget == started < MaxRequests

----------------------------------------------------------------------------
(* Actions: POST / *)

\* webhook, lines 270-282: a request arrives and is given to the first idle
\* thread; its payload is validated and either answered or handed to
\* execute_trade
Webhook(t, p) ==
    /\ req[t].pc = "idle"
    /\ \A u \in Workers : u < t => req[u].pc # "idle"
    /\ Budget
    /\ started' = started + 1
    /\ LET v == Validate(p)
           isFresh == p.id = NoKey \/ keyAge[p.id] = -1
       IN IF v.exc = "none"
          THEN /\ req' = [req EXCEPT ![t] = [IdleReq EXCEPT !.pc = "load",
                                                !.side = v.side, !.key = p.id]]
               /\ obs' = [obs EXCEPT ![t] = [IdleObs EXCEPT !.fresh = isFresh,
                                                !.file0 = balFile, !.pos0 = pos,
                                                !.trades0 = Len(trades),
                                                !.ordinal = started + 1]]
               /\ keyAge' = IF p.id # NoKey /\ isFresh
                            THEN [keyAge EXCEPT ![p.id] = 0] ELSE keyAge
          ELSE /\ req' = [req EXCEPT ![t] = [IdleReq EXCEPT !.pc = "done",
                                                !.exc = v.exc, !.key = p.id,
                                                !.status = ValidationStatus(v.exc)]]
               /\ obs' = [obs EXCEPT ![t] = [IdleObs EXCEPT !.fresh = isFresh,
                                                !.file0 = balFile, !.pos0 = pos,
                                                !.trades0 = Len(trades),
                                                !.ordinal = started + 1]]
               /\ keyAge' = keyAge
    /\ UNCHANGED <<balFile, trades, pos, orders, plLog, resets, sz>>

\* execute_trade, line 216: load_balance()
LoadBalance(t) ==
    /\ req[t].pc = "load"
    /\ LET r == load_balance(balFile)
       IN /\ balFile' = r.file
          /\ req' = IF r.exc = "none"
                    THEN [req EXCEPT ![t].pc = "getpos", ![t].cur = r.bal]
                    ELSE Raise(t, r.exc)
          /\ obs' = [obs EXCEPT ![t].loads = @ + 1, ![t].loaded = r.bal,
                                ![t].saves = @ + (IF r.file # balFile THEN 1 ELSE 0)]
    /\ UNCHANGED <<trades, pos, orders, keyAge, plLog, started, resets, sz>>

\* a faulty variant of GetCurrentPosition: the broker's 404 is an error
\* that ends the request
GetCurrentPositionStrict(t) ==
    /\ req[t].pc = "getpos"
    /\ \E answer \in {"ok", "404", "error"} :
        /\ answer = "404" => pos = 0
        /\ LET current_pos == IF answer = "ok" THEN pos ELSE 0
           IN /\ req' = IF answer = "404" THEN Raise(t, "HTTPError")
                        ELSE IF current_pos = 0
                        THEN [req EXCEPT ![t].pc = "commit", ![t].pl = 0]
                        ELSE [req EXCEPT ![t].pc = "close"]
              /\ obs' = [obs EXCEPT ![t].fetched =
                                IF answer = "ok" /\ pos = 0 THEN "zero" ELSE answer]
    /\ UNCHANGED <<balFile, trades, pos, orders, keyAge, plLog, started, resets, sz>>

\* get_current_position(), lines 74-104, as called by close_all_positions
\* (lines 110-113). The broker answers 404 only when it holds no position;
\* an answer of zero net units and any exception (an error status, a
\* timeout, an answer that cannot be parsed) both give None. No position:
\* realized P/L 0.
GetCurrentPosition(t) ==
    /\ req[t].pc = "getpos"
    /\ \E answer \in {"ok", "404", "error"} :
        /\ answer = "404" => pos = 0
        /\ LET current_pos == IF answer = "ok" THEN pos ELSE 0
           IN /\ req' = IF current_pos = 0
                        THEN [req EXCEPT ![t].pc = "commit", ![t].pl = 0]
                        ELSE [req EXCEPT ![t].pc = "close"]
              /\ obs' = [obs EXCEPT ![t].fetched =
                                IF answer = "ok" /\ pos = 0 THEN "zero" ELSE answer]
    /\ UNCHANGED <<balFile, trades, pos, orders, keyAge, plLog, started, resets, sz>>

\* a faulty variant of ClosePosition: a request for the side the position
\* already has leaves it open and is answered at once
ClosePositionDirectionAware(t) ==
    /\ req[t].pc = "close"
    /\ \/ /\ pos # 0
          /\ (pos > 0 /\ req[t].side = "BUY") \/ (pos < 0 /\ req[t].side = "SELL")
          /\ req' = [req EXCEPT ![t].pc = "done", ![t].status = 200]
          /\ UNCHANGED <<pos, plLog, obs>>
       \/ /\ pos # 0
          /\ ~((pos > 0 /\ req[t].side = "BUY") \/ (pos < 0 /\ req[t].side = "SELL"))
          /\ \E p \in PLs :
                /\ req' = [req EXCEPT ![t].pc = "commit", ![t].pl = p]
                /\ plLog' = [n |-> plLog.n + 1, sum |-> plLog.sum + p]
          /\ pos' = 0
          /\ obs' = [obs EXCEPT ![t].closes = @ + 1, ![t].closed = "ok"]
       \/ /\ pos = 0
          /\ req' = [req EXCEPT ![t].pc = "commit", ![t].pl = 0]
          /\ obs' = [obs EXCEPT ![t].closed = "404"]
          /\ UNCHANGED <<pos, plLog>>
       \/ /\ req' = Raise(t, "HTTPError")
          /\ obs' = [obs EXCEPT ![t].closed = "error"]
          /\ UNCHANGED <<pos, plLog>>
       \/ /\ pos # 0
          /\ pos' = 0
          /\ req' = Raise(t, "JSONDecodeError")
          /\ obs' = [obs EXCEPT ![t].closed = "unparsable"]
          /\ UNCHANGED plLog
    /\ UNCHANGED <<balFile, trades, orders, keyAge, started, resets, sz>>

\* close_all_positions(), lines 119-147: PUT .../close. The broker closes
\* the position and reports its P/L, answers 404 when there is none left,
\* or the call fails (an error status, a timeout: the position stays), or
\* the broker closes the position and its answer cannot be parsed; the
\* exception of a failure is re-raised.
ClosePosition(t) ==
    /\ req[t].pc = "close"
    /\ \/ /\ pos # 0
          /\ \E p \in PLs :
                /\ req' = [req EXCEPT ![t].pc = "commit", ![t].pl = p]
                /\ plLog' = [n |-> plLog.n + 1, sum |-> plLog.sum + p]
          /\ pos' = 0
          /\ obs' = [obs EXCEPT ![t].closes = @ + 1, ![t].closed = "ok"]
       \/ /\ pos = 0
          /\ req' = [req EXCEPT ![t].pc = "commit", ![t].pl = 0]
          /\ obs' = [obs EXCEPT ![t].closed = "404"]
          /\ UNCHANGED <<pos, plLog>>
       \/ /\ req' = Raise(t, "HTTPError")
          /\ obs' = [obs EXCEPT ![t].closed = "error"]
          /\ UNCHANGED <<pos, plLog>>
       \/ /\ pos # 0
          /\ pos' = 0
          /\ req' = Raise(t, "JSONDecodeError")
          /\ obs' = [obs EXCEPT ![t].closed = "unparsable"]
          /\ UNCHANGED plLog
    /\ UNCHANGED <<balFile, trades, orders, keyAge, started, resets, sz>>

\* a faulty variant of CommitBalance: a negative balance is stored as zero
CommitBalanceClamped(t) ==
    /\ req[t].pc = "commit"
    /\ LET new_virtual_balance == req[t].cur + req[t].pl
       IN /\ balFile' = save_balance(IF new_virtual_balance < 0 THEN 0
                                     ELSE new_virtual_balance)
          /\ req' = IF new_virtual_balance <= MIN_BALANCE
                    THEN [Raise(t, "ValueError") EXCEPT ![t].newbal = new_virtual_balance]
                    ELSE [req EXCEPT ![t].pc = "price", ![t].newbal = new_virtual_balance]
          /\ obs' = [obs EXCEPT ![t].saves = @ + 1, ![t].commits = @ + 1,
                                ![t].folded = new_virtual_balance,
                                ![t].committed = balFile'.cents]
    /\ UNCHANGED <<trades, pos, orders, keyAge, plLog, started, resets, sz>>

\* a faulty variant of CommitBalance: the balance is not saved before the
\* order is placed
CommitBalanceUnsaved(t) ==
    /\ req[t].pc = "commit"
    /\ LET new_virtual_balance == req[t].cur + req[t].pl
       IN req' = IF new_virtual_balance <= MIN_BALANCE
                 THEN [Raise(t, "ValueError") EXCEPT ![t].newbal = new_virtual_balance]
                 ELSE [req EXCEPT ![t].pc = "price", ![t].newbal = new_virtual_balance]
    /\ UNCHANGED <<balFile, obs, trades, pos, orders, keyAge, plLog, started, resets, sz>>

\* a faulty variant of CommitBalance: a balance of exactly 100 is traded
CommitBalanceBelowOnly(t) ==
    /\ req[t].pc = "commit"
    /\ LET new_virtual_balance == req[t].cur + req[t].pl
       IN /\ balFile' = save_balance(new_virtual_balance)
          /\ req' = IF new_virtual_balance < MIN_BALANCE
                    THEN [Raise(t, "ValueError") EXCEPT ![t].newbal = new_virtual_balance]
                    ELSE [req EXCEPT ![t].pc = "price", ![t].newbal = new_virtual_balance]
          /\ obs' = [obs EXCEPT ![t].saves = @ + 1, ![t].commits = @ + 1,
                                ![t].folded = new_virtual_balance,
                                ![t].committed = balFile'.cents]
    /\ UNCHANGED <<trades, pos, orders, keyAge, plLog, started, resets, sz>>

\* execute_trade, lines 225-234: fold the realized P/L in, save, and refuse
\* to trade on a balance of 100 or less
CommitBalance(t) ==
    /\ req[t].pc = "commit"
    /\ LET new_virtual_balance == req[t].cur + req[t].pl
       IN /\ balFile' = save_balance(new_virtual_balance)
          /\ req' = IF new_virtual_balance <= MIN_BALANCE
                    THEN [Raise(t, "ValueError") EXCEPT ![t].newbal = new_virtual_balance]
                    ELSE [req EXCEPT ![t].pc = "price", ![t].newbal = new_virtual_balance]
          /\ obs' = [obs EXCEPT ![t].saves = @ + 1, ![t].commits = @ + 1,
                                ![t].folded = new_virtual_balance,
                                ![t].committed = balFile'.cents]
    /\ UNCHANGED <<trades, pos, orders, keyAge, plLog, started, resets, sz>>

\* a faulty variant of GetPrice: the size is not checked against the minimum
GetPriceNoMinimum(t) ==
    /\ req[t].pc = "price"
    /\ \/ \E current_price \in Prices :
            LET position_units ==
                    calculate_position_size(req[t].newbal, current_price, req[t].side)
            IN /\ req' = [req EXCEPT ![t].pc = "order",
                                    ![t].price = current_price, ![t].units = position_units]
               /\ obs' = [obs EXCEPT ![t].sized = TRUE, ![t].sizedOn = req[t].newbal]
       \/ /\ req' = Raise(t, "HTTPError")
          /\ obs' = obs
    /\ UNCHANGED <<balFile, trades, pos, orders, keyAge, plLog, started, resets, sz>>

\* execute_trade, lines 237-241: get_current_price() (lines 149-167), then
\* calculate_position_size and the minimum size
GetPrice(t) ==
    /\ req[t].pc = "price"
    /\ \/ \E current_price \in Prices :
            LET position_units ==
                    calculate_position_size(req[t].newbal, current_price, req[t].side)
            IN /\ req' = IF Abs(position_units) < MIN_UNITS
                         THEN [Raise(t, "ValueError") EXCEPT ![t].units = position_units]
                         ELSE [req EXCEPT ![t].pc = "order",
                                    ![t].price = current_price, ![t].units = position_units]
               /\ obs' = [obs EXCEPT ![t].sized = TRUE, ![t].sizedOn = req[t].newbal]
       \/ /\ req' = Raise(t, "HTTPError")
          /\ obs' = obs
    /\ UNCHANGED <<balFile, trades, pos, orders, keyAge, plLog, started, resets, sz>>

\* a faulty variant of PlaceOrder: a failed submission is tried once more
PlaceOrderRetry(t) ==
    /\ req[t].pc = "order"
    /\ \/ /\ orders' = orders + 1
          /\ pos' = pos + req[t].units
          /\ req' = [req EXCEPT ![t].pc = "log"]
          /\ obs' = [obs EXCEPT ![t].tried = @ + 1, ![t].placed = @ + 1]
       \/ /\ req' = IF obs[t].tried = 0 THEN req ELSE Raise(t, "HTTPError")
          /\ obs' = [obs EXCEPT ![t].tried = @ + 1]
          /\ UNCHANGED <<orders, pos>>
    /\ UNCHANGED <<balFile, trades, keyAge, plLog, started, resets, sz>>

\* place_market_order(position_units), lines 169-190, called at line 244:
\* the broker fills the order into the net position, or the call fails
PlaceOrder(t) ==
    /\ req[t].pc = "order"
    /\ \/ /\ orders' = orders + 1
          /\ pos' = pos + req[t].units
          /\ req' = [req EXCEPT ![t].pc = "log"]
          /\ obs' = [obs EXCEPT ![t].tried = @ + 1, ![t].placed = @ + 1]
       \/ /\ req' = Raise(t, "HTTPError")
          /\ obs' = [obs EXCEPT ![t].tried = @ + 1]
          /\ UNCHANGED <<orders, pos>>
    /\ UNCHANGED <<balFile, trades, keyAge, plLog, started, resets, sz>>

\* a faulty variant of LogTrade: a journal that cannot be read or written
\* fails the request
LogTradeFatal(t) ==
    /\ req[t].pc = "log"
    /\ \/ /\ trades' = LastN(Append(trades, TradeData(req[t], obs[t].ordinal)), LOG_KEEP)
          /\ obs' = [obs EXCEPT ![t].journal = "written"]
          /\ req' = [req EXCEPT ![t].pc = "done", ![t].status = 200]
       \/ /\ obs' = [obs EXCEPT ![t].journal = "failed"]
          /\ req' = Raise(t, "OSError")
          /\ UNCHANGED trades
    /\ UNCHANGED <<balFile, pos, orders, keyAge, plLog, started, resets, sz>>

\* log_trade(trade_data), lines 55-71, called at line 258, and the return
\* of execute_trade into webhook's 200 (line 284): the record is appended
\* and the last 100 kept, or the journal cannot be read or written and the
\* exception is swallowed
LogTrade(t) ==
    /\ req[t].pc = "log"
    /\ \/ /\ trades' = LastN(Append(trades, TradeData(req[t], obs[t].ordinal)), LOG_KEEP)
          /\ obs' = [obs EXCEPT ![t].journal = "written"]
       \/ /\ obs' = [obs EXCEPT ![t].journal = "failed"]
          /\ UNCHANGED trades
    /\ req' = [req EXCEPT ![t].pc = "done", ![t].status = 200]
    /\ UNCHANGED <<balFile, pos, orders, keyAge, plLog, started, resets, sz>>

\* the response is sent and the thread is free again
Finish(t) ==
    /\ req[t].pc = "done"
    /\ req' = [req EXCEPT ![t] = IdleReq]
    /\ obs' = [obs EXCEPT ![t] = IdleObs]
    /\ UNCHANGED <<balFile, trades, pos, orders, keyAge, plLog, started, resets, sz>>

----------------------------------------------------------------------------
(* Actions: POST /reset, and the clock *)

\* a faulty variant of ResetBalance: the reset also empties the journal
ResetBalanceAndJournal ==
    /\ Budget
    /\ started' = started + 1
    /\ resets' = resets + 1
    /\ balFile' = save_balance(BASE_BAL)
    /\ trades' = <<>>
    /\ UNCHANGED <<pos, orders, req, obs, keyAge, plLog, sz>>

\* reset_balance, lines 325-333
ResetBalance ==
    /\ Budget
    /\ started' = started + 1
    /\ resets' = resets + 1
    /\ balFile' = save_balance(BASE_BAL)
    /\ UNCHANGED <<trades, pos, orders, req, obs, keyAge, plLog, sz>>

\* time passes: an alert id seen TTL ticks ago is forgotten. The clock is
\* looked at only when a request arrives, so it advances while one still can.
Tick ==
    /\ Budget
    /\ \E t \in Workers : req[t].pc = "idle"
    /\ \E k \in Keys : keyAge[k] # -1
    /\ keyAge' = [k \in Keys |->
                    IF keyAge[k] = -1 \/ keyAge[k] + 1 >= TTL THEN -1 ELSE keyAge[k] + 1]
    /\ UNCHANGED <<balFile, trades, pos, orders, req, obs, plLog, started, resets, sz>>

----------------------------------------------------------------------------
(* Specifications *)

SzOff == [pc |-> "off", b1 |-> 0, b2 |-> 0, price |-> 0, side |-> "-", u1 |-> 0, u2 |-> 0]

\* balances (mills) and prices (ticks) the sizer is applied to
SizerBalances == {-150000, -5, 0, 5, 99999, 100000, 110009, 999000, 1000000, 1010000}
SizerPrices == {11, 20, 600}

\* balance.json as the service may find it: absent, a record of the
\* baseline, a record of 100.00, text that is not JSON, an object without
\* "balance", an object whose "balance" is not a decimal string, and JSON
\* that is not an object
InitFiles ==
    { [kind |-> "missing", cents |-> 0],
      [kind |-> "valid", cents |-> ToCents(BASE_BAL)],
      [kind |-> "valid", cents |-> ToCents(MIN_BALANCE)],
      [kind |-> "badjson", cents |-> 0],
      [kind |-> "nokey", cents |-> 0],
      [kind |-> "baddecimal", cents |-> 0],
      [kind |-> "notobject", cents |-> 0] }

Init ==
    /\ balFile \in InitFiles
    /\ trades = <<>>
    /\ pos \in InitPositions
    /\ orders = 0
    /\ req = [t \in Workers |-> IdleReq]
    /\ obs = [t \in Workers |-> IdleObs]
    /\ keyAge = [k \in Keys |-> -1]
    /\ plLog = [n |-> 0, sum |-> 0]
    /\ started = 0
    /\ resets = 0
    /\ sz = SzOff

\* one step of the request served by thread t
Step(t) ==
    \/ \E p \in Payloads : Webhook(t, p)
    \/ LoadBalance(t)
    \/ GetCurrentPosition(t)
    \/ ClosePosition(t)
    \/ CommitBalance(t)
    \/ GetPrice(t)
    \/ PlaceOrder(t)
    \/ LogTrade(t)
    \/ Finish(t)

\* requests are served concurrently, one thread each
Next ==
    \/ \E t \in Workers : Step(t)
    \/ ResetBalance
    \/ Tick

Spec == Init /\ [][Next]_vars

MainThread == 1

AllIdle == \A u \in Workers : req[u].pc = "idle"

\* requests are served one at a time, by a single thread
SeqNext ==
    \/ Step(MainThread)
    \/ AllIdle /\ ResetBalance
    \/ Tick

SeqSpec == Init /\ [][SeqNext]_vars

\* trades.json after n earlier trades, oldest first
OldJournal(n) ==
    [i \in 1..n |-> [timestamp |-> i - n, side |-> "BUY", units |-> MIN_UNITS]]

\* the service restarted on a journal that is one record short of full, or full
JournalInit ==
    /\ balFile \in InitFiles
    /\ trades \in {OldJournal(LOG_KEEP - 1), OldJournal(LOG_KEEP)}
    /\ pos \in InitPositions
    /\ orders = 0
    /\ req = [t \in Workers |-> IdleReq]
    /\ obs = [t \in Workers |-> IdleObs]
    /\ keyAge = [k \in Keys |-> -1]
    /\ plLog = [n |-> 0, sum |-> 0]
    /\ started = 0
    /\ resets = 0
    /\ sz = SzOff

JournalSpec == JournalInit /\ [][SeqNext]_vars

\* the sizer alone: two balances b1 <= b2, a price and a side are drawn, and
\* calculate_position_size is applied to both balances
SizerInit ==
    /\ balFile = [kind |-> "valid", cents |-> ToCents(BASE_BAL)]
    /\ trades = <<>>
    /\ pos = 0
    /\ orders = 0
    /\ req = [t \in Workers |-> IdleReq]
    /\ obs = [t \in Workers |-> IdleObs]
    /\ keyAge = [k \in Keys |-> -1]
    /\ plLog = [n |-> 0, sum |-> 0]
    /\ started = 0
    /\ resets = 0
    /\ sz \in { x \in [pc : {"in"}, b1 : SizerBalances, b2 : SizerBalances,
                       price : SizerPrices, side : Sides, u1 : {0}, u2 : {0}] :
                 x.b1 <= x.b2 }

SizerApply ==
    /\ sz.pc = "in"
    /\ sz' = [sz EXCEPT !.pc = "out",
                        !.u1 = calculate_position_size(sz.b1, sz.price, sz.side),
                        !.u2 = calculate_position_size(sz.b2, sz.price, sz.side)]
    /\ UNCHANGED <<balFile, trades, pos, orders, req, obs, keyAge, plLog, started, resets>>

SizerNext == SizerApply

SizerSpec == SizerInit /\ [][SizerNext]_vars

----------------------------------------------------------------------------
(* Properties *)

\* c cents is x mills cut to two decimal places, toward zero
TruncatedTo(c, x) ==
    /\ x >= 0 => c >= 0 /\ c * Quantum <= x /\ x - c * Quantum < Quantum
    /\ x < 0 => c <= 0 /\ c * Quantum >= x /\ c * Quantum - x < Quantum

\* the balance a request finds in ledger file f: what is stored, or the
\* baseline when there is no usable record
StartBalance(f) == IF f.kind = "valid" THEN f.cents * Quantum ELSE BASE_BAL

\* the request of thread t asks for the side the broker's position already has
SameDirection(t) ==
    \/ obs[t].pos0 > 0 /\ req[t].side = "BUY"
    \/ obs[t].pos0 < 0 /\ req[t].side = "SELL"

\* C1 (commit before order). When execute_trade is about to call
\* place_market_order, its commit has been made and the ledger file holds
\* the loaded balance plus the realized P/L of the close (cut to cents, as
\* save_balance stores it); after the order attempt, accepted or failed, the
\* file still holds that value, and a failed attempt has answered 500 and
\* left the broker's position and order count as the close left them.
C1_CommitBeforeOrder ==
    \A t \in Workers :
        /\ req[t].pc = "order" =>
              /\ obs[t].commits = 1
              /\ obs[t].folded = req[t].cur + req[t].pl
              /\ balFile.kind = "valid"
              /\ TruncatedTo(balFile.cents, req[t].cur + req[t].pl)
        /\ obs[t].tried > 0 =>
              /\ obs[t].tried = 1
              /\ balFile.kind = "valid"
              /\ TruncatedTo(balFile.cents, obs[t].folded)
              /\ obs[t].placed = 0 =>
                    /\ req[t].pc = "done"
                    /\ req[t].status = 500
                    /\ pos = (IF obs[t].closes = 1 THEN 0 ELSE obs[t].pos0)

\* a request closed a position at a profit or loss, committed it, and its
\* order was refused
C1_Witness ==
    \E t \in Workers :
        /\ req[t].pc = "done"
        /\ obs[t].closes = 1
        /\ obs[t].tried = 1
        /\ obs[t].placed = 0
        /\ obs[t].folded # StartBalance(obs[t].file0)
        /\ balFile.cents * Quantum # obs[t].folded

\* C2 as stated (direction-aware no-op). A request for the side of the
\* position the broker already holds closes nothing, submits nothing and
\* leaves the ledger balance as it found it.
C2_NoOpSameDirection ==
    \A t \in Workers :
        (req[t].pc # "idle" /\ SameDirection(t)) =>
            /\ obs[t].closes = 0
            /\ obs[t].tried = 0
            /\ StartBalance(balFile) = StartBalance(obs[t].file0)

\* C2 as the code has it (unconditional close). A request for the side of
\* the position the broker already holds, whose position fetch succeeds,
\* closes that position once, folds the realized P/L into the ledger before
\* sizing, and when it completes with 200 it has submitted one order.
C2_UnconditionalClose ==
    \A t \in Workers :
        (SameDirection(t) /\ obs[t].fetched = "ok") =>
            /\ req[t].pc \in {"commit", "price", "order", "log"} =>
                  obs[t].closes = 1 /\ req[t].pl \in PLs
            /\ req[t].pc \in {"price", "order", "log"} =>
                  /\ balFile.kind = "valid"
                  /\ TruncatedTo(balFile.cents, req[t].cur + req[t].pl)
            /\ (req[t].pc = "done" /\ req[t].status = 200) =>
                  obs[t].closes = 1 /\ obs[t].placed = 1

\* a BUY on a long position closed it and opened a new one
C2_Witness ==
    \E t \in Workers :
        /\ req[t].pc = "done"
        /\ req[t].status = 200
        /\ SameDirection(t)
        /\ obs[t].closes = 1
        /\ obs[t].placed = 1

\* C3 (idempotency). A request whose alert id was already seen within the
\* TTL is a duplicate: it is answered without reading or writing the
\* ledger, without a broker call and without a journal write.
C3_DuplicateNotExecuted ==
    \A t \in Workers :
        (req[t].pc # "idle" /\ ~obs[t].fresh) =>
            /\ req[t].pc = "done"
            /\ obs[t].loads = 0
            /\ obs[t].saves = 0
            /\ obs[t].fetched = "-"
            /\ obs[t].closes = 0
            /\ obs[t].tried = 0
            /\ obs[t].journal = "-"

C5_InsufficientFunds ==
    \A t \in Workers :
        (obs[t].commits = 1 /\ obs[t].folded <= 0) =>
            /\ req[t].pc = "done"
            /\ req[t].exc = "ValueError"
            /\ req[t].status = 400
            /\ ~obs[t].sized
            /\ obs[t].tried = 0
            /\ obs[t].placed = 0
            /\ balFile.kind = "valid"
            /\ balFile.cents <= 0
            /\ TruncatedTo(balFile.cents, obs[t].folded)

\* a losing close took the balance below zero and the request was refused
C5_Witness ==
    \E t \in Workers :
        /\ req[t].pc = "done"
        /\ obs[t].closes = 1
        /\ obs[t].commits = 1
        /\ obs[t].folded < 0
        /\ balFile.cents < 0

\* C6 (truncating sizer). For a positive balance and a positive price the
\* size is floor(balance * leverage / price) units, positive for BUY and
\* negated for SELL: abs(units) * price <= balance * leverage <
\* (abs(units) + 1) * price.
C6_SizerTruncates ==
    (sz.pc = "out" /\ sz.b1 > 0 /\ sz.price > 0) =>
        LET notional == sz.b1 * LEVERAGE * PriceScale
            step == sz.price * Dollar
            magnitude == Abs(sz.u1)
        IN /\ magnitude * step <= notional
           /\ notional < (magnitude + 1) * step
           /\ sz.u1 = (IF sz.side = "SELL" THEN -magnitude ELSE magnitude)

\* 1000.000 at 1.1 is sized to 45454 units (45454.54 cut, not rounded)
C6_Witness ==
    /\ sz.pc = "out"
    /\ sz.b1 = 1000000
    /\ sz.price = 11
    /\ sz.side = "BUY"
    /\ sz.u1 = 45454

\* C7 (end to end, no position). A BUY that finds the baseline balance and
\* no open position, and whose order the broker accepts, is answered 200
\* with floor(B * 50 / p) units; it leaves the ledger at the baseline, has
\* submitted exactly that one order, and has journalled one record of it
\* when the journal could be written. At 1.1 the units are 45454.
C7_EndToEnd ==
    \A t \in Workers :
        (/\ req[t].pc = "done"
         /\ req[t].side = "BUY"
         /\ obs[t].pos0 = 0
         /\ StartBalance(obs[t].file0) = BASE_BAL
         /\ obs[t].placed > 0) =>
            /\ req[t].status = 200
            /\ balFile = [kind |-> "valid", cents |-> BASE_BAL \div Quantum]
            /\ obs[t].tried = 1
            /\ obs[t].placed = 1
            /\ obs[t].closes = 0
            /\ pos = req[t].units
            /\ req[t].units > 0
            /\ req[t].units * req[t].price * Dollar <= BASE_BAL * LEVERAGE * PriceScale
            /\ BASE_BAL * LEVERAGE * PriceScale < (req[t].units + 1) * req[t].price * Dollar
            /\ req[t].price = 11 => req[t].units = 45454
            /\ obs[t].journal = "written" =>
                  /\ Len(trades) = obs[t].trades0 + 1
                  /\ trades[Len(trades)].units = req[t].units
                  /\ trades[Len(trades)].side = "BUY"
            /\ obs[t].journal = "failed" => Len(trades) = obs[t].trades0

\* the scenario of the spec: baseline 1000, price 1.10, BUY, no position
C7_Witness ==
    \E t \in Workers :
        /\ req[t].pc = "done"
        /\ req[t].status = 200
        /\ req[t].side = "BUY"
        /\ obs[t].pos0 = 0
        /\ StartBalance(obs[t].file0) = BASE_BAL
        /\ req[t].price = 11
        /\ req[t].units = 45454
        /\ Len(trades) = obs[t].trades0 + 1

\* C8 as stated (sizing monotonicity). For one price and one side, BUY or
\* SELL, the signed size does not decrease when the balance grows.
C8_MonotoneSigned ==
    sz.pc = "out" => sz.u1 <= sz.u2

\* C8 as the code has it. For one price, the signed size does not decrease
\* with the balance for BUY and does not increase with it for SELL.
C8_MonotoneBySide ==
    sz.pc = "out" =>
        /\ sz.side = "BUY" => sz.u1 <= sz.u2
        /\ sz.side = "SELL" => sz.u1 >= sz.u2

\* a SELL sized on a larger balance is a smaller signed number
C8_Witness ==
    /\ sz.pc = "out"
    /\ sz.side = "SELL"
    /\ sz.b1 < sz.b2
    /\ sz.u1 > sz.u2

\* C9 (validation short-circuit). A request that never got a valid side is
\* answered 400 and has touched neither the ledger, nor the broker, nor the
\* journal.
C9_InvalidRejected ==
    \A t \in Workers :
        (req[t].pc = "done" /\ req[t].side = "-") =>
            /\ req[t].status = 400
            /\ obs[t].loads = 0
            /\ obs[t].saves = 0
            /\ obs[t].fetched = "-"
            /\ obs[t].closes = 0
            /\ obs[t].tried = 0
            /\ obs[t].journal = "-"
            /\ balFile = obs[t].file0
            /\ pos = obs[t].pos0
            /\ Len(trades) = obs[t].trades0

\* C10 (sizing uses the committed balance). The balance a request passes to
\* calculate_position_size is the value its commit wrote to the ledger.
C10_SizedOnCommitted ==
    \A t \in Workers :
        obs[t].sized =>
            /\ obs[t].commits = 1
            /\ obs[t].sizedOn = obs[t].committed * Quantum

\* C11 (errors abort before the ledger is touched). A request whose
\* position fetch failed (an error status, a timeout, an unparsable answer),
\* or whose close call failed, has ended in failure: it is answered with an
\* error status, the ledger balance is as the request found it, and it has
\* attempted no order.
C11_ErrorsAbortUntouched ==
    \A t \in Workers :
        (obs[t].fetched = "error" \/ obs[t].closed \in {"error", "unparsable"}) =>
            /\ req[t].pc = "done"
            /\ req[t].status \in {400, 500}
            /\ StartBalance(balFile) = StartBalance(obs[t].file0)
            /\ obs[t].commits = 0
            /\ obs[t].tried = 0

\* C12 (nothing to close is not an error). A request that was told there is
\* no position (404 on the fetch, zero net units, or 404 on the close call)
\* has closed nothing; its realized P/L is 0, its commit writes the balance
\* it loaded, and it goes on to sizing and the order: it ends before its
\* commit never, before sizing only by the balance check or a failed price
\* call, and a size of 100 units or more is submitted.
C12_NothingToClose ==
    \A t \in Workers :
        (obs[t].fetched \in {"404", "zero"} \/ obs[t].closed = "404") =>
            /\ obs[t].closes = 0
            /\ req[t].pc \in {"commit", "price", "order", "log", "done"}
            /\ req[t].pc # "done" => req[t].pl = 0
            /\ obs[t].commits = 1 =>
                  /\ obs[t].folded = obs[t].loaded
                  /\ obs[t].committed * Quantum = obs[t].loaded
            /\ req[t].pc = "done" =>
                  /\ obs[t].commits = 1
                  /\ (obs[t].folded > MIN_BALANCE /\ ~obs[t].sized) =>
                        req[t].exc = "HTTPError"
                  /\ (obs[t].sized /\ Abs(req[t].units) >= MIN_UNITS) =>
                        obs[t].tried = 1

\* the position went away between the fetch and the close call (another
\* request closed it): the close answered 404 and the request traded on the
\* balance it had loaded
C12_Witness ==
    \E t \in Workers :
        /\ obs[t].closed = "404"
        /\ req[t].pc = "done"
        /\ req[t].status = 200
        /\ obs[t].placed = 1
        /\ obs[t].folded = obs[t].loaded

\* C13 (minimum tradable size). Every order execute_trade is about to
\* submit, and every order it submitted, has abs(units) >= 100 and was sized
\* from a positive balance. A request whose sizing gave fewer than 100 units
\* is answered 400 and has attempted no order, and so is a request whose
\* balance after the commit is not positive, which is never sized.
C13_MinimumSize ==
    \A t \in Workers :
        /\ req[t].pc \in {"order", "log"} =>
              /\ Abs(req[t].units) >= MIN_UNITS
              /\ obs[t].sized
              /\ obs[t].sizedOn > 0
        /\ obs[t].tried > 0 => obs[t].sized /\ obs[t].sizedOn > 0
        /\ (req[t].pc = "done" /\ req[t].status = 200) =>
              Abs(req[t].units) >= MIN_UNITS
        /\ (req[t].pc = "done" /\ obs[t].sized /\ obs[t].tried = 0) =>
              /\ Abs(req[t].units) < MIN_UNITS
              /\ req[t].exc = "ValueError"
              /\ req[t].status = 400
        /\ (obs[t].commits = 1 /\ obs[t].folded <= 0) =>
              /\ ~obs[t].sized
              /\ obs[t].tried = 0
              /\ req[t].status = 400

\* 110.009 at 60.0 is sized to 91 units: the request is refused
C13_Witness ==
    \E t \in Workers :
        /\ req[t].pc = "done"
        /\ obs[t].sized
        /\ obs[t].sizedOn = 110009
        /\ req[t].units = 91
        /\ req[t].status = 400
        /\ obs[t].tried = 0

\* C14 (no retry, failure status on order errors). A request attempts the
\* order submission at most once. When the broker refuses the order or the
\* call times out, the request is over: it is answered 500, and the journal
\* has not been written and holds what it held when the request arrived.
C14_NoRetryOrderFailure ==
    \A t \in Workers :
        /\ obs[t].tried <= 1
        /\ (obs[t].tried = 1 /\ obs[t].placed = 0) =>
              /\ req[t].pc = "done"
              /\ req[t].exc = "HTTPError"
              /\ req[t].status = 500
              /\ obs[t].journal = "-"
              /\ Len(trades) = obs[t].trades0

\* the second request's order was refused after the first one's was
\* accepted and journalled: the journal still holds that one record
C14_Witness ==
    \E t \in Workers :
        /\ req[t].pc = "done"
        /\ req[t].status = 500
        /\ obs[t].tried = 1
        /\ obs[t].placed = 0
        /\ orders = 1
        /\ Len(trades) = 1

\* the records of journal j are in execution order, most recent last
InExecutionOrder(j) ==
    \A i \in 1..(Len(j) - 1) : j[i].timestamp < j[i + 1].timestamp

\* C15 (bounded journal). The journal never holds more than 100 records, and
\* they are in execution order, most recent last. Every request whose
\* order was accepted, and no other, writes the journal, and unless that
\* write fails (log_trade swallows the failure) its record is the last one.
\* The journal changes only
\* when a request whose order the broker accepted writes its record: the
\* record goes to the end, the records before it are the previous journal
\* in the same order, less its oldest record when it was full.
C15_BoundedJournal ==
    /\ [](/\ Len(trades) <= LOG_KEEP
          /\ InExecutionOrder(trades)
          /\ \A t \in Workers :
                /\ (req[t].pc = "done" /\ obs[t].placed = 1) =>
                      obs[t].journal \in {"written", "failed"}
                /\ obs[t].journal # "-" => obs[t].placed = 1
                /\ obs[t].journal = "written" =>
                      /\ Len(trades) > 0
                      /\ trades[Len(trades)].timestamp = obs[t].ordinal)
    /\ [][trades' # trades =>
            \E t \in Workers :
                /\ req[t].pc = "log"
                /\ obs[t].placed = 1
                /\ Len(trades') = (IF Len(trades) < LOG_KEEP
                                   THEN Len(trades) + 1 ELSE LOG_KEEP)
                /\ trades'[Len(trades')].timestamp = obs[t].ordinal
                /\ trades'[Len(trades')].side = req[t].side
                /\ trades'[Len(trades')].units = req[t].units
                /\ LET dropped == Len(trades) + 1 - Len(trades')
                   IN \A i \in 1..(Len(trades') - 1) : trades'[i] = trades[i + dropped]
       ]_vars

\* two trades were journalled on a journal that was nearly full: it holds
\* 100 records, the two new ones last, and the oldest ones are gone
C15_Witness ==
    /\ Len(trades) = LOG_KEEP
    /\ trades[LOG_KEEP].timestamp = 2
    /\ trades[LOG_KEEP - 1].timestamp = 1
    /\ trades[1].timestamp > 1 - LOG_KEEP

\* C16 (journal failure is not fatal). A request whose journal could not be
\* read or written after its order was accepted is answered 200 with the
\* data of the trade (side, units, entry price, balance after the close),
\* and the ledger holds what the request's commit wrote, exactly as for a
\* request whose journal write succeeded.
C16_JournalFailureNonFatal ==
    \A t \in Workers :
        /\ obs[t].journal = "failed" =>
              /\ req[t].pc = "done"
              /\ req[t].exc = "none"
              /\ req[t].status = 200
              /\ obs[t].placed = 1
              /\ req[t].side \in Sides
              /\ req[t].price \in Prices
              /\ req[t].newbal = obs[t].folded
              /\ req[t].units = calculate_position_size(obs[t].folded, req[t].price, req[t].side)
              /\ Len(trades) = obs[t].trades0
        /\ obs[t].journal \in {"written", "failed"} =>
              balFile = [kind |-> "valid", cents |-> obs[t].committed]

\* a request closed a position at a loss, traded on what was left, and
\* could not write the journal
C16_Witness ==
    \E t \in Workers :
        /\ obs[t].journal = "failed"
        /\ req[t].status = 200
        /\ obs[t].closes = 1
        /\ obs[t].committed = 11000
        /\ pos = req[t].units

\* C17 (ledger load falls back to the baseline). Once a request has called
\* load_balance, it holds the recorded balance when the ledger file was a
\* valid record; when the file was absent or corrupt in any way (not JSON,
\* no balance key, a balance that is not a decimal string, not an object)
\* it holds the baseline and has written the baseline to the ledger. The
\* load never ends the request.
C17_LoadFallsBack ==
    \A t \in Workers :
        obs[t].loads = 1 =>
            /\ req[t].exc \notin {"InvalidOperation", "TypeError"}
            /\ obs[t].file0.kind = "valid" =>
                  obs[t].loaded = FromCents(obs[t].file0.cents)
            /\ obs[t].file0.kind # "valid" =>
                  /\ obs[t].loaded = BASE_BAL
                  /\ obs[t].saves >= 1
                  /\ balFile.kind = "valid"

\* C18 (reset restores the baseline). Whatever the ledger file held, when
\* POST /reset has been served it holds the baseline, so that load_balance
\* on it returns the baseline; the reset calls the broker for nothing (the
\* position, the orders and the closes are as before) and leaves the journal
\* and the requests as they were.
C18_ResetRestoresBaseline ==
    [][resets' # resets =>
            /\ balFile'.kind = "valid"
            /\ FromCents(balFile'.cents) = BASE_BAL
            /\ load_balance(balFile').exc = "none"
            /\ load_balance(balFile').bal = BASE_BAL
            /\ load_balance(balFile').file = balFile'
            /\ UNCHANGED <<pos, orders, plLog, trades, req, obs>>
       ]_vars

\* a request closed a position at a gain of 10.00, committed it, traded and
\* journalled; the reset after it put the baseline back and left the
\* position, the order and the journal record in place
C18_Witness ==
    /\ resets = 1
    /\ plLog.sum = 10000
    /\ orders = 1
    /\ pos # 0
    /\ Len(trades) = 1
    /\ balFile = [kind |-> "valid", cents |-> ToCents(BASE_BAL)]

\* C19 (one position at a time). Under serial service, when execute_trade
\* is about to submit an order the broker holds no position, whatever the
\* position fetch answered; after the order is accepted, and when the
\* request is answered 200, the broker's net position is the units of that
\* order.
C19_OnePositionAtATime ==
    \A t \in Workers :
        /\ req[t].pc = "order" => pos = 0
        /\ (req[t].pc = "log" \/ (req[t].pc = "done" /\ req[t].status = 200)) =>
              pos = req[t].units

\* ledger file f records a balance of 100 or less
LowBalance(f) == f.kind = "valid" /\ FromCents(f.cents) <= MIN_BALANCE

\* the ledger records 100 or less, the broker holds no position, and every
\* request in service arrived in that state
Absorbed ==
    /\ LowBalance(balFile)
    /\ pos = 0
    /\ \A t \in Workers :
            req[t].pc # "idle" => obs[t].file0 = balFile /\ obs[t].pos0 = 0

\* C20 (low balance is absorbing until reset). Under serial service, a
\* trade request (BUY or SELL) that arrives when the ledger records 100 or
\* less and the broker holds no position closes nothing, is never sized,
\* attempts no order, leaves the ledger and the position as they were and
\* is answered 400. No step other than POST /reset takes the service out of
\* that state: the ledger record, the empty position, the order count and
\* the journal stay as they are.
C20_LowBalanceAbsorbing ==
    /\ [](\A t \in Workers :
            (/\ req[t].pc # "idle"
             /\ req[t].side \in Sides
             /\ LowBalance(obs[t].file0)
             /\ obs[t].pos0 = 0) =>
                /\ balFile = obs[t].file0
                /\ pos = 0
                /\ obs[t].closes = 0
                /\ ~obs[t].sized
                /\ obs[t].tried = 0
                /\ req[t].pc = "done" =>
                      req[t].exc = "ValueError" /\ req[t].status = 400)
    /\ [][(Absorbed /\ resets' = resets) =>
            /\ Absorbed'
            /\ balFile' = balFile
            /\ orders' = orders
            /\ trades' = trades
       ]_vars

\* a loss took the ledger to -200.00 in the first request; the second
\* request, a valid trade request, was refused on that balance
C20_Witness ==
    \E t \in Workers :
        /\ req[t].pc = "done"
        /\ req[t].side \in Sides
        /\ obs[t].ordinal = 2
        /\ obs[t].file0 = [kind |-> "valid", cents |-> -20000]
        /\ obs[t].pos0 = 0
        /\ obs[t].commits = 1
        /\ req[t].status = 400
        /\ balFile = obs[t].file0

====
